---- MODULE Spec2Model ----
\* A model of ml/model_server.py: the Flask inference server of SignSpeak.
\* Module start-up (load the Keras model, load the class labels, app.run),
\* the /predict handler and the /health handler.
EXTENDS Integers, Sequences, FiniteSets, TLC

\* ---------------------------------------------------------------- bounds
\* The model's output dimensionality ranges over 1..MaxClasses.
MaxClasses == 2
\* The label table's length ranges over 0..MaxLabels.
MaxLabels == 2

\* ------------------------------------------------------------ input sets
\* The request-handling threads of the (threaded) Flask server.
Workers == {"w1", "w2"}
\* Pixel contents a client may send (the identity of the tensor's data).
Tensors == {"t1", "t2"}
\* Scores in hundredths: 50 is 0.5, 150 is 1.5 (an unnormalized score).
ScoreValues == {50, 150}
\* Entries a class_labels.json may hold.
LabelAlphabet == {"A", ""}
\* Shapes of the numeric arrays a client may send.
ValidShapes == {<<160, 160, 3>>, <<1, 160, 160, 3>>}
InvalidShapes == {<<>>, <<3>>, <<160, 3>>, <<160, 160, 4>>, <<2, 160, 160, 3>>,
                  <<1, 160, 160, 4>>, <<1, 1, 160, 160, 3>>}

\* A request body, as request.get_json() sees it:
\*   "null"        the JSON document null
\*   "no_image"    a JSON object without an "image" key
\*   "text_image"  an object whose "image" is a non-numeric string
\*   "array_image" an object whose "image" is a (nested) numeric array
MalformedBodies ==
    {[kind |-> k, shape |-> <<>>, data |-> "t1"] : k \in {"null", "no_image", "text_image"}}
ArrayBodies ==
    {[kind |-> "array_image", shape |-> s, data |-> t] : s \in ValidShapes, t \in Tensors}
    \cup {[kind |-> "array_image", shape |-> s, data |-> "t1"] : s \in InvalidShapes}
Bodies == MalformedBodies \cup ArrayBodies
\* The bodies sent while two handlers run concurrently: every valid tensor in
\* both of its forms, one malformed body and one array of a wrong shape.
ConcurrentBodies ==
    {b \in Bodies : \/ b.shape \in ValidShapes \cup {<<1, 160, 160, 4>>}
                    \/ b.kind = "no_image"}

\* What model.predict does on one tensor: return a batch holding one score
\* vector, or raise.
InferenceMsg == "Graph execution error"
Returned(v) == [raised |-> FALSE, scores |-> v, msg |-> ""]
Raised(m) == [raised |-> TRUE, scores |-> <<>>, msg |-> m]
Outcomes(n) == {Returned(v) : v \in [1..n -> ScoreValues]} \cup {Raised(InferenceMsg)}
\* A loaded model is a deterministic function of the input tensor with a
\* fixed output dimensionality.
Models ==
    UNION {{[output_dim |-> n, fn |-> f] : f \in [Tensors -> Outcomes(n)]} : n \in 1..MaxClasses}
LabelTables == UNION {[1..n -> LabelAlphabet] : n \in 0..MaxLabels}

VARIABLES
    pc,            \* position of the module's top-level code
    model,         \* the global `model`
    class_labels,  \* the global `class_labels`
    loads,         \* how often each artifact has been loaded
    req,           \* per worker: the /predict request it handles
    health_resp    \* the responses GET /health has returned (the last one)

vars == <<pc, model, class_labels, loads, req, health_resp>>

\* ------------------------------------------------------ pure computations
\* Python's str() of a tuple of ints: (), (3,), (1, 160, 160, 3).
RECURSIVE JoinInts(_)
JoinInts(s) ==
    IF Len(s) = 0 THEN ""
    ELSE IF Len(s) = 1 THEN ToString(s[1])
    ELSE ToString(s[1]) \o ", " \o JoinInts(Tail(s))

PyTupleStr(s) ==
    IF Len(s) = 1 THEN "(" \o ToString(s[1]) \o ",)"
    ELSE "(" \o JoinInts(s) \o ")"

\* expected_shape = (1, 160, 160, 3)
expected_shape == <<1, 160, 160, 3>>

\* if len(image_data.shape) == 3: image_data = np.expand_dims(image_data, axis=0)
ExpandDimsMutNever(shape) == shape
ExpandDims(shape) == IF Len(shape) = 3 THEN <<1>> \o shape ELSE shape

ShapeErrorMsgMutNoExpected(shape) == "Invalid input shape: " \o PyTupleStr(shape)
\* f'Invalid input shape. Expected {expected_shape}, got {image_data.shape}'
ShapeErrorMsg(shape) ==
    "Invalid input shape. Expected " \o PyTupleStr(expected_shape)
        \o ", got " \o PyTupleStr(shape)

\* np.argmax: the first index (0-based) holding the maximum.
RECURSIVE ArgMaxFrom(_, _, _)
ArgMaxFrom(v, i, best) ==
    IF i > Len(v) THEN best - 1
    ELSE ArgMaxFrom(v, i + 1, IF v[i] > v[best] THEN i ELSE best)

ArgMaxMutLast(v) ==
    CHOOSE i \in 0..(Len(v) - 1) :
        /\ \A j \in 1..Len(v) : v[j] <= v[i + 1]
        /\ \A j \in (i + 2)..Len(v) : v[j] < v[i + 1]
ArgMax(v) == ArgMaxFrom(v, 1, 1)

ResolveLabelMutClamp(labels, idx) ==
    IF idx >= Len(labels) THEN "UNKNOWN_CLASS_" \o ToString(Len(labels))
    ELSE labels[idx + 1]
\* predicted_class: class_labels[predicted_idx], or the UNKNOWN_CLASS marker.
ResolveLabel(labels, idx) ==
    IF idx >= Len(labels) THEN "UNKNOWN_CLASS_" \o ToString(idx)
    ELSE labels[idx + 1]

\* jsonify(...) with its status code.
Success(label, conf) ==
    [status |-> 200, json |-> [prediction |-> label, confidence |-> conf]]
Error(msg, code) == [status |-> code, json |-> [error |-> msg]]

\* The exceptions the handler's steps raise, with Python's str() of each.
KeyErrorImage == [type |-> "KeyError", msg |-> "'image'"]
TypeErrorNone == [type |-> "TypeError", msg |-> "'NoneType' object is not subscriptable"]
ValueErrorText == [type |-> "ValueError", msg |-> "could not convert string to float: 'x'"]
InferenceError(m) == [type |-> "InferenceError", msg |-> m]

\* `except Exception` catches every class derived from Exception.
CaughtMutValueErrorOnly(e) == e.type = "ValueError"
Caught(e) == e.type \in {"KeyError", "TypeError", "ValueError", "InferenceError"}

\* The request record of a worker.
Idle == [pc |-> "idle", body |-> [kind |-> "null", shape |-> <<>>, data |-> "t1"],
         calls |-> 0, resp |-> <<>>]
Done(body, calls, r) == [pc |-> "done", body |-> body, calls |-> calls, resp |-> <<r>>]
Escaped(body, calls) == [pc |-> "raised", body |-> body, calls |-> calls, resp |-> <<>>]

OnExceptionMutGeneric(body, calls, e) ==
    IF Caught(e) THEN Done(body, calls, Error("Internal server error", 500))
    ELSE Escaped(body, calls)
\* except Exception as e: ... return jsonify({'error': str(e)}), 500
OnException(body, calls, e) ==
    IF Caught(e) THEN Done(body, calls, Error(e.msg, 500)) ELSE Escaped(body, calls)

\* data = request.get_json(); image_data = np.array(data['image'], dtype=np.float32)
ParseImage(body) ==
    CASE body.kind = "null" -> [ok |-> FALSE, exc |-> TypeErrorNone, shape |-> <<>>]
      [] body.kind = "no_image" -> [ok |-> FALSE, exc |-> KeyErrorImage, shape |-> <<>>]
      [] body.kind = "text_image" -> [ok |-> FALSE, exc |-> ValueErrorText, shape |-> <<>>]
      [] OTHER -> [ok |-> TRUE, exc |-> KeyErrorImage, shape |-> body.shape]

\* ------------------------------------------------------------------ state
Init ==
    /\ pc = "load_model"
    /\ model = [output_dim |-> 1, fn |-> [t \in Tensors |-> Raised("not loaded")]]
    /\ class_labels = <<>>
    /\ loads = [model |-> 0, labels |-> 0]
    /\ req = [w \in Workers |-> Idle]
    /\ health_resp = <<>>

\* model = keras.models.load_model('./checkpoints/sequential_inference.h5')
LoadModel ==
    /\ pc = "load_model"
    /\ \E m \in Models : model' = m
    /\ loads' = [loads EXCEPT !.model = @ + 1]
    /\ pc' = "load_labels"
    /\ UNCHANGED <<class_labels, req, health_resp>>

\* load_model raises: the import of the module fails and the process ends.
LoadModelFail ==
    /\ pc = "load_model"
    /\ pc' = "aborted"
    /\ UNCHANGED <<model, class_labels, loads, req, health_resp>>

\* with open(...) as f: class_labels = json.load(f)['classes']
LoadLabels ==
    /\ pc = "load_labels"
    /\ \E l \in LabelTables : class_labels' = l
    /\ loads' = [loads EXCEPT !.labels = @ + 1]
    /\ pc' = "main"
    /\ UNCHANGED <<model, req, health_resp>>

LoadLabelsFailMutSwallow ==
    /\ pc = "load_labels"
    /\ pc' = "main"
    /\ UNCHANGED <<model, class_labels, loads, req, health_resp>>
\* open / json.load / ['classes'] raises: the process ends.
LoadLabelsFail ==
    /\ pc = "load_labels"
    /\ pc' = "aborted"
    /\ UNCHANGED <<model, class_labels, loads, req, health_resp>>

\* app.run(host='0.0.0.0', port=5000, debug=False)
Main ==
    /\ pc = "main"
    /\ pc' = "serving"
    /\ UNCHANGED <<model, class_labels, loads, req, health_resp>>

\* POST /predict, from the dispatch of the request up to the call of
\* model.predict: parse, normalize, check the shape.
PredictEnter(w, body) ==
    /\ pc = "serving"
    /\ req[w].pc \in {"idle", "done"}
    /\ LET parsed == ParseImage(body)
           shape == ExpandDims(parsed.shape)
       IN req' = [req EXCEPT ![w] =
              IF ~parsed.ok THEN OnException(body, 0, parsed.exc)
              ELSE IF shape # expected_shape
                   THEN Done(body, 0, Error(ShapeErrorMsg(shape), 400))
                   ELSE [pc |-> "infer", body |-> body, calls |-> 1, resp |-> <<>>]]
    /\ UNCHANGED <<pc, model, class_labels, loads, health_resp>>

PredictReturnMutPopLabel(w) ==
    /\ req[w].pc = "infer"
    /\ LET out == model.fn[req[w].body.data]
           predicted_idx == ArgMax(out.scores)
           confidence == out.scores[predicted_idx + 1]
       IN req' = [req EXCEPT ![w] =
              IF out.raised THEN OnException(@.body, @.calls, InferenceError(out.msg))
              ELSE Done(@.body, @.calls,
                        Success(ResolveLabel(class_labels, predicted_idx), confidence))]
    /\ class_labels' = IF class_labels = <<>> THEN <<>> ELSE Tail(class_labels)
    /\ UNCHANGED <<pc, model, loads, health_resp>>
\* POST /predict, from the return of model.predict to the response: top-1
\* selection, label resolution, jsonify; or the except clause.
PredictReturn(w) ==
    /\ req[w].pc = "infer"
    /\ LET out == model.fn[req[w].body.data]
           predicted_idx == ArgMax(out.scores)
           confidence == out.scores[predicted_idx + 1]
       IN req' = [req EXCEPT ![w] =
              IF out.raised THEN OnException(@.body, @.calls, InferenceError(out.msg))
              ELSE Done(@.body, @.calls,
                        Success(ResolveLabel(class_labels, predicted_idx), confidence))]
    /\ UNCHANGED <<pc, model, class_labels, loads, health_resp>>

HealthOk == [status |-> 200, json |-> [status |-> "ok", model_loaded |-> TRUE]]
HealthMutBusy ==
    /\ pc = "serving"
    /\ health_resp' =
         <<IF \E w \in Workers : req[w].pc = "infer"
           THEN [status |-> 503, json |-> [status |-> "busy", model_loaded |-> TRUE]]
           ELSE HealthOk>>
    /\ UNCHANGED <<pc, model, class_labels, loads, req>>
\* GET /health: return jsonify({'status': 'ok', 'model_loaded': True})
Health ==
    /\ pc = "serving"
    /\ health_resp' = <<HealthOk>>
    /\ UNCHANGED <<pc, model, class_labels, loads, req>>

Startup ==
    \/ LoadModel
    \/ LoadModelFail
    \/ LoadLabels
    \/ LoadLabelsFail
    \/ Main

\* One /predict handler at a time (interleaved with /health), every body.
Next ==
    \/ Startup
    \/ \E body \in Bodies : PredictEnter("w1", body)
    \/ PredictReturn("w1")
    \/ Health

Spec == Init /\ [][Next]_vars

\* Handlers running concurrently on all the workers.
NextConcurrent ==
    \/ Startup
    \/ \E w \in Workers, body \in ConcurrentBodies : PredictEnter(w, body)
    \/ \E w \in Workers : PredictReturn(w)
    \/ Health

SpecConcurrent == Init /\ [][NextConcurrent]_vars

\* ------------------------------------------------------------- properties
\* A handler that has ended: it returned a response or let an exception out.
Ended(w) == req[w].pc \in {"done", "raised"}
IsArray(w) == req[w].body.kind = "array_image"
IsValid(w) == IsArray(w) /\ req[w].body.shape \in ValidShapes
\* The model's outcome on the tensor of worker w's request.
OutcomeOf(w) == model.fn[req[w].body.data]
InUnit(x) == 0 <= x /\ x <= 100
IsSuccess(r) == r.status = 200 /\ DOMAIN r.json = {"prediction", "confidence"}
IsError(r) == r.status \in {400, 500} /\ DOMAIN r.json = {"error"}
\* The lowest 0-based index that holds the maximum of v.
LowestMax(v) ==
    CHOOSE i \in 0..(Len(v) - 1) :
        /\ \A j \in 1..Len(v) : v[j] <= v[i + 1]
        /\ \A j \in 1..i : v[j] < v[i + 1]

\* C1 (as claimed): every request with an image of shape (160,160,3) or
\* (1,160,160,3), for every label table and every score vector the model
\* returns, gets status 200 with a confidence in [0,1] and a non-empty
\* prediction.
C1_AnyOutputUnitConfidence ==
    \A w \in Workers :
        (Ended(w) /\ IsValid(w) /\ ~OutcomeOf(w).raised) =>
            /\ Len(req[w].resp) = 1
            /\ IsSuccess(req[w].resp[1])
            /\ InUnit(req[w].resp[1].json.confidence)
            /\ req[w].resp[1].json.prediction # ""

\* C1 (amended): the same, for every label table whose entries are non-empty
\* strings and every returned score vector whose scores lie in [0,1].
C1_NormalizedOutputUnitConfidence ==
    \A w \in Workers :
        (/\ Ended(w) /\ IsValid(w) /\ ~OutcomeOf(w).raised
         /\ \A j \in 1..Len(OutcomeOf(w).scores) : InUnit(OutcomeOf(w).scores[j])
         /\ \A j \in 1..Len(class_labels) : class_labels[j] # "") =>
            /\ Len(req[w].resp) = 1
            /\ IsSuccess(req[w].resp[1])
            /\ InUnit(req[w].resp[1].json.confidence)
            /\ req[w].resp[1].json.prediction # ""

C1_Witness ==
    \E w \in Workers :
        /\ req[w].pc = "done" /\ req[w].body.shape = <<160, 160, 3>>
        /\ IsValid(w) /\ ~OutcomeOf(w).raised
        /\ \A j \in 1..Len(OutcomeOf(w).scores) : InUnit(OutcomeOf(w).scores[j])
        /\ Len(class_labels) > 0
        /\ \A j \in 1..Len(class_labels) : class_labels[j] # ""
        /\ req[w].resp[1].status = 200

\* The text of the normalized shape of each wrong-shaped array, as Python
\* prints it.
C2_ActualText(shape) ==
    CASE shape = <<>> -> "()"
      [] shape = <<3>> -> "(3,)"
      [] shape = <<160, 3>> -> "(160, 3)"
      [] shape = <<160, 160, 4>> -> "(1, 160, 160, 4)"
      [] shape = <<2, 160, 160, 3>> -> "(2, 160, 160, 3)"
      [] shape = <<1, 160, 160, 4>> -> "(1, 160, 160, 4)"
      [] shape = <<1, 1, 160, 160, 3>> -> "(1, 1, 160, 160, 3)"

\* C2: a request whose array, once a batch dimension is added to a
\* 3-dimensional one, has a shape other than (1,160,160,3) gets status 400
\* and the error 'Invalid input shape. Expected (1, 160, 160, 3), got <A>'
\* with <A> the normalized shape.
C2_ShapeMismatchIs400 ==
    \A w \in Workers :
        (Ended(w) /\ IsArray(w) /\ req[w].body.shape \in InvalidShapes) =>
            req[w].resp =
                <<[status |-> 400,
                   json |-> [error |-> "Invalid input shape. Expected (1, 160, 160, 3), got "
                                          \o C2_ActualText(req[w].body.shape)]]>>

C2_Witness ==
    \E w \in Workers :
        /\ req[w].pc = "done" /\ IsArray(w)
        /\ req[w].body.shape = <<160, 160, 4>>
        /\ req[w].resp[1].status = 400

\* C3: a request without an `image` field, or whose `image` is not a numeric
\* array, gets an error payload with a client-error (400) status.
C3_MalformedIs400 ==
    \A w \in Workers :
        (Ended(w) /\ req[w].body \in MalformedBodies) =>
            /\ Len(req[w].resp) = 1
            /\ req[w].resp[1].status = 400
            /\ DOMAIN req[w].resp[1].json = {"error"}

\* C4: with i the top index of the returned scores and L the label table,
\* the prediction is L[i] when i < len(L) and 'UNKNOWN_CLASS_<i>' otherwise,
\* and the status is 200 in both cases.
C4_LabelResolution ==
    \A w \in Workers :
        (Ended(w) /\ IsValid(w) /\ ~OutcomeOf(w).raised) =>
            LET i == ArgMax(OutcomeOf(w).scores)
            IN /\ Len(req[w].resp) = 1
               /\ IsSuccess(req[w].resp[1])
               /\ i < Len(class_labels) =>
                      req[w].resp[1].json.prediction = class_labels[i + 1]
               /\ i >= Len(class_labels) =>
                      req[w].resp[1].json.prediction = "UNKNOWN_CLASS_" \o ToString(i)

C4_Witness ==
    \E w \in Workers :
        /\ req[w].pc = "done" /\ IsValid(w) /\ ~OutcomeOf(w).raised
        /\ Len(class_labels) = 1
        /\ ArgMax(OutcomeOf(w).scores) = 1
        /\ req[w].resp[1].json.prediction = "UNKNOWN_CLASS_1"

\* C5: when model.predict raises for a request that passed the shape check,
\* the response is status 500 with the exception's message as `error`, holds
\* neither `prediction` nor `confidence`, and the model was invoked once.
C5_InferenceFailureIs500 ==
    \A w \in Workers :
        /\ req[w].calls <= 1
        /\ (Ended(w) /\ IsValid(w) /\ OutcomeOf(w).raised) =>
               /\ req[w].resp = <<[status |-> 500, json |-> [error |-> OutcomeOf(w).msg]]>>
               /\ req[w].calls = 1

C5_Witness ==
    \E w \in Workers :
        /\ req[w].pc = "done" /\ IsValid(w) /\ OutcomeOf(w).raised
        /\ req[w].resp[1].status = 500 /\ req[w].calls = 1

\* C6: a handler never lets an exception out, and one that has ended holds
\* exactly one response: a success payload with status 200 or an error
\* payload with status 400 or 500, never both kinds of fields; a handler
\* that has not ended has returned nothing.
C6_ExactlyOneWellFormedResponse ==
    \A w \in Workers :
        /\ req[w].pc # "raised"
        /\ req[w].pc = "done" =>
               /\ Len(req[w].resp) = 1
               /\ IsSuccess(req[w].resp[1]) \/ IsError(req[w].resp[1])
               /\ ~(IsSuccess(req[w].resp[1]) /\ IsError(req[w].resp[1]))
        /\ req[w].pc \in {"idle", "infer"} => req[w].resp = <<>>

C6_Witness ==
    \E w \in Workers :
        /\ req[w].pc = "done" /\ req[w].body.kind = "no_image"
        /\ IsError(req[w].resp[1])

\* C7: every response of /health is {status: 'ok', model_loaded: true} with
\* status 200, whatever the /predict handlers are doing, and a /health
\* request changes nothing the /predict handlers or the startup use.
C7_HealthAlwaysOk ==
    /\ [](health_resp # <<>> =>
            /\ pc = "serving"
            /\ health_resp =
                 <<[status |-> 200, json |-> [status |-> "ok", model_loaded |-> TRUE]]>>)
    /\ [][health_resp' # health_resp =>
            UNCHANGED <<pc, model, class_labels, loads, req>>]_vars

C7_Witness ==
    /\ health_resp # <<>>
    /\ \E w \in Workers : req[w].pc = "infer"
    /\ \E w \in Workers : req[w].pc = "done" /\ req[w].resp[1].status = 500

\* C8: the process is Ready (serving) only with the model and the labels
\* each loaded exactly once; no /predict is handled before Ready; a failed
\* load ends in the aborted state, which is never left and never Ready;
\* Ready is never left and nothing is loaded again.
C8_Lifecycle ==
    /\ [](/\ pc = "serving" => loads = [model |-> 1, labels |-> 1]
          /\ pc # "serving" => (health_resp = <<>> /\ \A w \in Workers : req[w] = Idle)
          /\ pc = "aborted" => (loads.model = 0 \/ loads.labels = 0)
          /\ loads.model <= 1 /\ loads.labels <= 1)
    /\ [][/\ pc = "serving" => (pc' = "serving" /\ loads' = loads)
          /\ pc = "aborted" => pc' = "aborted"
          /\ pc' = "serving" => (pc \in {"main", "serving"})]_vars

C8_Witness ==
    /\ pc = "serving"
    /\ loads = [model |-> 1, labels |-> 1]
    /\ \E w \in Workers : req[w].pc = "done"

\* C9: two requests carrying the same tensor get the same status,
\* prediction and confidence, whatever was handled before or between them,
\* and once Ready no step changes the model or the label table.
C9_Deterministic ==
    /\ [](\A w1, w2 \in Workers :
            (/\ req[w1].pc = "done" /\ req[w2].pc = "done"
             /\ IsValid(w1) /\ IsValid(w2)
             /\ req[w1].body.data = req[w2].body.data) =>
                req[w1].resp = req[w2].resp)
    /\ [][pc = "serving" => UNCHANGED <<model, class_labels>>]_vars

C9_Witness ==
    /\ req["w1"].pc = "done" /\ req["w2"].pc = "done"
    /\ IsValid("w1") /\ IsValid("w2")
    /\ req["w1"].body.data = req["w2"].body.data
    /\ req["w1"].body.shape # req["w2"].body.shape
    /\ req["w1"].resp[1].status = 200
    /\ Len(class_labels) > 0

\* C10: the index np.argmax selects is the lowest index holding the maximum
\* score, and the confidence returned is the score at that index, unscaled.
C10_Top1 ==
    \A w \in Workers :
        (req[w].pc = "done" /\ IsValid(w) /\ ~OutcomeOf(w).raised) =>
            LET v == OutcomeOf(w).scores
            IN /\ ArgMax(v) = LowestMax(v)
               /\ req[w].resp[1].json.confidence = v[LowestMax(v) + 1]
               /\ \A j \in 1..Len(v) : v[j] <= req[w].resp[1].json.confidence

C10_Witness ==
    \E w \in Workers :
        /\ req[w].pc = "done" /\ IsValid(w) /\ ~OutcomeOf(w).raised
        /\ Len(OutcomeOf(w).scores) > 1
        /\ \A j \in 1..Len(OutcomeOf(w).scores) : OutcomeOf(w).scores[j] = 150
        /\ req[w].resp[1].json.confidence = 150
====
